---- MODULE Spec2Model ----
(***************************************************************************)
(* State-machine model of the SessionsPage view                            *)
(* (src/src/components/SessionsPage/SessionsPage.tsx).                     *)
(*                                                                         *)
(* One action per event handler or promise continuation.  A handler and    *)
(* the re-render that React performs for its state updates are one atomic  *)
(* step (single-threaded event loop; updates made in one continuation are  *)
(* committed together), so the memoised value `filtered` is part of the    *)
(* state and is refreshed by every action through Render.                  *)
(*                                                                         *)
(* Encodings                                                               *)
(*   optional value (null / undefined / "")  : <<>>  or  <<v>>             *)
(*   instant (Date.getTime())                : integer milliseconds        *)
(*   ISO date-time string                    : [day, ms] (UTC day, ms in   *)
(*                                             the day)                    *)
(*   value of <input type="date">            : <<>> ("") or <<day>>        *)
(*   real number                             : reduced fraction [n, d]     *)
(***************************************************************************)
EXTENDS Integers, Sequences, FiniteSets, Bags, TLC

\* ---------------------------------------------------------------- bounds
MaxFilterRows == 3   \* longest row list given to the filter on its own
MaxPickObs    == 3   \* longest series given to pickClosest on its own
MaxPickHour   == 3   \* hours 0..MaxPickHour of day 0 used as observation and target times
MaxEnrichLen  == 7   \* longest session list given to the enrichment on its own
MaxSessions   == 2   \* longest session list the service returns
MaxDay        == 1   \* calendar days 0..MaxDay appear in data and inputs
MaxInFlight   == 2   \* weather fetches awaiting a response at one time
RandDen       == 2   \* Math.random() is sampled at k / RandDen, k = 0..RandDen-1

\* ------------------------------------------------------- JS Date and numbers
HourMs == 60 * 60000
DayMs  == 24 * HourMs

\* new Date(iso).getTime() for an ISO date-time string
ParseISO(iso) == iso.day * DayMs + iso.ms

\* new Date("yyyy-mm-dd").getTime(): a date-only string is UTC midnight
ParseDate(d) == d * DayMs

Abs(x) == IF x < 0 THEN -x ELSE x

RECURSIVE Gcd(_, _)
Gcd(a, b) == IF b = 0 THEN a ELSE Gcd(b, a % b)

\* the real number n/d (d > 0) as a reduced fraction
Frac(n, d) == LET g == Gcd(Abs(n), d) IN [n |-> n \div g, d |-> d \div g]

\* ------------------------------------------------------------- columns
ColumnOrder ==
  << "id", "start", "end", "duration", "pace", "sport", "distance",
     "calories", "avg_hr", "steps", "spo2", "vo2max", "coach", "training",
     "weather" >>

ColumnKey == { ColumnOrder[i] : i \in 1..Len(ColumnOrder) }

defaultVisible ==
  [ k \in ColumnKey |->
      k \in {"id", "start", "duration", "sport", "distance", "spo2", "weather"} ]

\* --------------------------------------------------- derived-metric helpers
\* variant: the span is not clamped at zero
minutesBetween_noClamp(aISO, bISO) ==
  Frac(ParseISO(bISO) - ParseISO(aISO), 60000)

\* Math.max(0, (b - a) / 60000)
minutesBetween(aISO, bISO) ==
  LET a == ParseISO(aISO)
      b == ParseISO(bISO)
  IN  IF b - a > 0 THEN Frac(b - a, 60000) ELSE Frac(0, 1)

\* distanceKm : <<>> (undefined) or <<km>>, km an integer; minutes : a fraction
paceMinPerKm(distanceKm, minutes) ==
  IF distanceKm = <<>> \/ distanceKm[1] = 0 \/ distanceKm[1] <= 0
     \/ minutes.n = 0 \/ minutes.n <= 0
  THEN <<>>
  ELSE << Frac(minutes.n, minutes.d * distanceKm[1]) >>

\* ---------------------------------------------------------------- fmtPace
\* strings are sequences of one-character strings
DigitChar(d) == << "0", "1", "2", "3", "4", "5", "6", "7", "8", "9" >>[d + 1]

\* Number.prototype.toString() of a non-negative integer
RECURSIVE NumToString(_)
NumToString(n) ==
  IF n < 10 THEN << DigitChar(n) >>
  ELSE NumToString(n \div 10) \o << DigitChar(n % 10) >>

\* String.prototype.padStart(len, ch)
RECURSIVE PadStart(_, _, _)
PadStart(str, len, ch) ==
  IF Len(str) >= len THEN str ELSE PadStart(<< ch >> \o str, len, ch)

\* Math.floor and Math.round (half up) of a non-negative fraction
Floor(q) == q.n \div q.d
Round(q) == (2 * q.n + q.d) \div (2 * q.d)

\* the placeholder returned for a falsy pace
Dash == << "-" >>

\* minPerKm : <<>> (undefined) or <<fraction>>
fmtPace(minPerKm) ==
  IF minPerKm = <<>> \/ minPerKm[1].n = 0 THEN Dash
  ELSE LET m  == Floor(minPerKm[1])
           sx == Round(Frac((minPerKm[1].n - m * minPerKm[1].d) * 60, minPerKm[1].d))
       IN  NumToString(m) \o << ":" >> \o PadStart(NumToString(sx), 2, "0")
             \o << "/", "k", "m" >>

\* ------------------------------------------------------------ pickClosest
\* variant: a later observation replaces best on an equal difference
RECURSIVE pickScan_lastWins(_, _, _, _, _)
pickScan_lastWins(observations, target, i, best, bestDiff) ==
  IF i > Len(observations) THEN best
  ELSE LET diff == Abs(ParseISO(observations[i].timestamp) - target)
       IN  IF diff <= bestDiff
           THEN pickScan_lastWins(observations, target, i + 1, i, diff)
           ELSE pickScan_lastWins(observations, target, i + 1, best, bestDiff)

\* The scan of lines 59-64 over observations[from..]; best is tracked by its
\* index (the identity of the observation object).
RECURSIVE pickScan(_, _, _, _, _)
pickScan(observations, target, i, best, bestDiff) ==
  IF i > Len(observations) THEN best
  ELSE LET diff == Abs(ParseISO(observations[i].timestamp) - target)
       IN  IF diff < bestDiff
           THEN pickScan(observations, target, i + 1, i, diff)
           ELSE pickScan(observations, target, i + 1, best, bestDiff)

\* observations : <<>> (undefined) or <<array>>.  Index of the returned
\* observation in the array, 0 when undefined is returned.
pickClosestIdx(observations, isoTime) ==
  IF observations = <<>> \/ Len(observations[1]) = 0 THEN 0
  ELSE LET target == ParseISO(isoTime)
       IN  pickScan(observations[1], target, 1, 1,
                    Abs(ParseISO(observations[1][1].timestamp) - target))

\* <<>> for undefined, else <<observation>>
pickClosest(observations, isoTime) ==
  LET i == pickClosestIdx(observations, isoTime)
  IN  IF i = 0 THEN <<>> ELSE << observations[1][i] >>

\* ------------------------------------------------------------- enrichment
coaches   == << "Sarah Eastern", "John Mitchell", "Linda Carter" >>
trainings == << "Strength", "Cardio", "Flexibility", "Team Practice", "Tempo", "Intervals" >>

\* Math.floor(base + Math.random() * span), Math.random() = u.n / u.d in [0,1)
RandomFloor(base, span, u) == base + ((span * u.n) \div u.d)

\* the object built for data[i] (idx = i - 1 is the 0-based map index);
\* u1, u2 are the two Math.random() results
EnrichOne(s, idx, u1, u2) ==
  LET duration == minutesBetween(s.start_time, s.end_time)
      pace     == paceMinPerKm(s.distance_km, duration)
  IN  [ id               |-> s.id,
        start_time       |-> s.start_time,
        end_time         |-> s.end_time,
        distance_km      |-> s.distance_km,
        spo2_pct         |-> IF s.spo2_pct # <<>> THEN s.spo2_pct[1]
                             ELSE RandomFloor(94, 6, u1),
        coach            |-> coaches[(idx % Len(coaches)) + 1],
        training_type    |-> trainings[(idx % Len(trainings)) + 1],
        vo2max           |-> RandomFloor(45, 20, u2),
        duration_minutes |-> duration,
        pace_min_per_km  |-> pace ]

\* variant: the label index is the 1-based position
Enrich_oneBased(data, rnd) ==
  [ i \in 1..Len(data) |-> EnrichOne(data[i], i, rnd[i][1], rnd[i][2]) ]

\* data.map((s, idx) => ...); rnd[i] = <<u1, u2>> drawn for element i
Enrich(data, rnd) ==
  [ i \in 1..Len(data) |-> EnrichOne(data[i], i - 1, rnd[i][1], rnd[i][2]) ]

\* ------------------------------------------------------------------ filter
\* variant: the upper bound is exclusive
filterRows_exclusiveTo(rs, from, to) ==
  IF from = <<>> /\ to = <<>> THEN rs
  ELSE SelectSeq(rs, LAMBDA r :
         LET t == ParseISO(r.start_time)
         IN  /\ (from = <<>> \/ t >= ParseDate(from[1]))
             /\ (to = <<>> \/ t < ParseDate(to[1])))

\* the useMemo callback of lines 132-140
filterRows(rs, from, to) ==
  IF from = <<>> /\ to = <<>> THEN rs
  ELSE SelectSeq(rs, LAMBDA r :
         LET t == ParseISO(r.start_time)
         IN  /\ (from = <<>> \/ t >= ParseDate(from[1]))
             /\ (to = <<>> \/ t <= ParseDate(to[1])))

\* variant: toDate is missing from the dependency list
filteredDeps_noTo(rs, from, to) == << rs, from >>

\* dependency list of the useMemo
filteredDeps(rs, from, to) == << rs, from, to >>

VARIABLES
  mounted,      \* the component instance is mounted
  loadPc,       \* load effect: "awaiting" getSessions(), or past the await:
                \* "resolved" (try block ran) / "rejected" (catch block ran)
  rows, loading, error, selected, weatherById, visibleCols,
  fromDate, toDate,
  filtered,     \* value held by the useMemo
  inflight      \* bag of session ids with a pending getSessionWeather(id)

vars == << mounted, loadPc, rows, loading, error, selected, weatherById,
           visibleCols, fromDate, toDate, filtered, inflight >>

\* ------------------------------------------------------------ React state
\* variant: the update is applied whether or not the component is mounted
SetState_always(cur, new) == new

\* A useState setter called on an unmounted component is dropped by React:
\* the stored value is never replaced.
SetState(cur, new) == IF mounted THEN new ELSE cur

\* Re-render after an action: the memo is recomputed when a dependency
\* changed, otherwise the previous value is kept.
Render ==
  filtered' =
    IF filteredDeps(rows', fromDate', toDate') # filteredDeps(rows, fromDate, toDate)
    THEN filterRows(rows', fromDate', toDate')
    ELSE filtered

\* -------------------------------------------------- external collaborators
SessionId(i) == 7 * i + 3

Iso(day, ms) == [day |-> day, ms |-> ms]

Days == 0..MaxDay

\* Math.random() results used by the model
RandomSamples == { Frac(k, RandDen) : k \in 0..(RandDen - 1) }

\* responses of getSessions(): the first n sessions of the service, n up to
\* MaxSessions; session i runs from 10:00 to 11:00 on day (i-1) mod (MaxDay+1),
\* odd positions carry no spo2_pct, even positions no distance
ServiceSession(i) ==
  [ id          |-> SessionId(i),
    start_time  |-> Iso((i - 1) % (MaxDay + 1), 10 * HourMs),
    end_time    |-> Iso((i - 1) % (MaxDay + 1), 11 * HourMs),
    distance_km |-> IF i % 2 = 1 THEN <<10>> ELSE <<>>,
    spo2_pct    |-> IF i % 2 = 1 THEN <<>> ELSE <<96>> ]

SessionLists ==
  { [ i \in 1..n |-> ServiceSession(i) ] : n \in 0..MaxSessions }

\* values a service call can reject with
Thrown ==
  { [kind |-> "Error", message |-> <<"Failed to fetch">>, str |-> "Error: Failed to fetch"],
    [kind |-> "Error", message |-> <<"">>, str |-> "Error"],
    [kind |-> "string", message |-> <<>>, str |-> "timeout"] }

\* e?.message ?? String(e)
ErrorText(e) ==
  IF e.message # <<>> THEN e.message[1] ELSE e.str

\* responses of getSessionWeather(id): an empty series or one observation
WeatherResponses ==
  { <<>>, << [timestamp |-> Iso(0, 10 * HourMs)] >> }

\* ---------------------------------------------------------------- actions
Init ==
  /\ mounted = TRUE
  /\ loadPc = "awaiting"
  /\ rows = <<>>
  /\ loading = TRUE
  /\ error = <<>>
  /\ selected = <<>>
  /\ weatherById = << >>
  /\ visibleCols = defaultVisible
  /\ fromDate = <<>>
  /\ toDate = <<>>
  /\ filtered = <<>>
  /\ inflight = EmptyBag

\* variant: the loading flag is not cleared after a successful fetch
LoadOk_keepLoading(data, rnd) ==
  /\ loadPc = "awaiting"
  /\ loadPc' = "resolved"
  /\ rows' = SetState(rows, Enrich(data, rnd))
  /\ UNCHANGED << mounted, loading, error, selected, weatherById, visibleCols,
                  fromDate, toDate, inflight >>
  /\ filtered' = filterRows(rows', fromDate', toDate')

\* variant: the effect has no dependency list and starts again after the
\* render that follows its own state updates
LoadOk_noDeps(data, rnd) ==
  /\ loadPc = "awaiting"
  /\ loadPc' = "awaiting"
  /\ rows' = SetState(rows, Enrich(data, rnd))
  /\ loading' = SetState(loading, FALSE)
  /\ UNCHANGED << mounted, error, selected, weatherById, visibleCols,
                  fromDate, toDate, inflight >>
  /\ filtered' = filterRows(rows', fromDate', toDate')

\* getSessions() resolved with data: lines 86-111, then finally (115)
LoadOk(data, rnd) ==
  /\ loadPc = "awaiting"
  /\ loadPc' = "resolved"
  /\ rows' = SetState(rows, Enrich(data, rnd))
  /\ loading' = SetState(loading, FALSE)
  /\ UNCHANGED << mounted, error, selected, weatherById, visibleCols,
                  fromDate, toDate, inflight >>
  /\ Render

\* variant: no finally block, the flag is cleared on the success path only
LoadFail_noFinally(e) ==
  /\ loadPc = "awaiting"
  /\ loadPc' = "rejected"
  /\ error' = SetState(error, << ErrorText(e) >>)
  /\ UNCHANGED << mounted, rows, loading, selected, weatherById, visibleCols,
                  fromDate, toDate, inflight, filtered >>

\* getSessions() rejected with e: catch (113), then finally (115)
LoadFail(e) ==
  /\ loadPc = "awaiting"
  /\ loadPc' = "rejected"
  /\ error' = SetState(error, << ErrorText(e) >>)
  /\ loading' = SetState(loading, FALSE)
  /\ UNCHANGED << mounted, rows, selected, weatherById, visibleCols,
                  fromDate, toDate, inflight >>
  /\ Render

\* variant: the cache test looks at the series length
HasWeather_nonEmpty(cache, id) == id \in DOMAIN cache /\ Len(cache[id]) > 0

\* variant: an id with a fetch in flight counts as present
HasWeather_orInFlight(cache, id) == id \in DOMAIN cache \/ BagIn(id, inflight)

\* !weatherById[s.id] is false: an array, even an empty one, is truthy
HasWeather(cache, id) == id \in DOMAIN cache

\* onRowClick(s) up to the await: a click on a displayed row
onRowClick(s) ==
  /\ mounted
  /\ \E i \in 1..Len(filtered) : filtered[i] = s
  /\ selected' = << s >>
  /\ IF ~HasWeather(weatherById, s.id)
     THEN /\ BagCardinality(inflight) < MaxInFlight
          /\ inflight' = inflight (+) SetToBag({s.id})
     ELSE inflight' = inflight
  /\ UNCHANGED << mounted, loadPc, rows, loading, error, weatherById,
                  visibleCols, fromDate, toDate >>
  /\ Render

\* variant: the update does not spread prev
PutWeather_noSpread(prev, id, wx) == [ k \in {id} |-> wx ]

\* prev => ({ ...prev, [s.id]: wx })
PutWeather(prev, id, wx) ==
  [ k \in DOMAIN prev \cup {id} |-> IF k = id THEN wx ELSE prev[k] ]

\* variant: the continuation stores under the id of the current selection
WriteBackKey_selected(id) == IF selected # <<>> THEN selected[1].id ELSE id

\* key under which the continuation of onRowClick(s) stores its result
WriteBackKey(id) == id

\* getSessionWeather(id) resolved with wx: line 125
WeatherOk(id, wx) ==
  /\ BagIn(id, inflight)
  /\ inflight' = inflight (-) SetToBag({id})
  /\ weatherById' = SetState(weatherById, PutWeather(weatherById, WriteBackKey(id), wx))
  /\ UNCHANGED << mounted, loadPc, rows, loading, error, selected,
                  visibleCols, fromDate, toDate >>
  /\ Render

\* variant: the catch reports the failure like the load effect does
WeatherCatch_setError(e) ==
  /\ error' = SetState(error, << ErrorText(e) >>)
  /\ UNCHANGED weatherById

\* catch (e) { console.error("weather fetch failed", e); }
WeatherCatch(e) == UNCHANGED << error, weatherById >>

\* getSessionWeather(id) rejected with e: lines 126-128
WeatherFail(id, e) ==
  /\ BagIn(id, inflight)
  /\ inflight' = inflight (-) SetToBag({id})
  /\ WeatherCatch(e)
  /\ UNCHANGED << mounted, loadPc, rows, loading, selected,
                  visibleCols, fromDate, toDate >>
  /\ Render

\* variant: a selection that the new range hides is cleared
SetFromDate_deselect(v) ==
  /\ mounted
  /\ fromDate' = v
  /\ selected' = IF selected # <<>> /\ filterRows(<< selected[1] >>, v, toDate) = <<>>
                 THEN <<>> ELSE selected
  /\ UNCHANGED << mounted, loadPc, rows, loading, error,
                  weatherById, visibleCols, toDate, inflight >>
  /\ filtered' = filterRows(rows', fromDate', toDate')

\* onChange of the From input
SetFromDate(v) ==
  /\ mounted
  /\ fromDate' = v
  /\ UNCHANGED << mounted, loadPc, rows, loading, error, selected,
                  weatherById, visibleCols, toDate, inflight >>
  /\ Render

\* onChange of the To input
SetToDate(v) ==
  /\ mounted
  /\ toDate' = v
  /\ UNCHANGED << mounted, loadPc, rows, loading, error, selected,
                  weatherById, visibleCols, fromDate, inflight >>
  /\ Render

\* onClick of the Clear button
ClearRange ==
  /\ mounted
  /\ fromDate' = <<>>
  /\ toDate' = <<>>
  /\ UNCHANGED << mounted, loadPc, rows, loading, error, selected,
                  weatherById, visibleCols, inflight >>
  /\ Render

\* variant: the update spreads the default map instead of v
ToggleValue_fromDefault(v, k) == [ defaultVisible EXCEPT ![k] = ~v[k] ]

\* variant: the key is written without computed-property brackets
ToggleValue_literalKey(v, k) ==
  [ j \in DOMAIN v \cup {"k"} |-> IF j = "k" THEN ~v[k] ELSE v[j] ]

\* v => ({ ...v, [k]: !v[k] })
ToggleValue(v, k) == [ v EXCEPT ![k] = ~v[k] ]

toggleCol(k) ==
  /\ mounted
  /\ visibleCols' = ToggleValue(visibleCols, k)
  /\ UNCHANGED << mounted, loadPc, rows, loading, error, selected,
                  weatherById, fromDate, toDate, inflight >>
  /\ Render

\* the view is torn down; pending fetches are not cancelled
Unmount ==
  /\ mounted
  /\ mounted' = FALSE
  /\ UNCHANGED << loadPc, rows, loading, error, selected, weatherById,
                  visibleCols, fromDate, toDate, filtered, inflight >>

DateInputs == { <<>> } \cup { << d >> : d \in Days }

\* the checkbox operated in this specification
ToggleKeys == { "pace" }

\* the Math.random() results of one load; all calls of one load return the
\* same sample
RandomDraws(data) ==
  { [ i \in 1..Len(data) |-> << u, u >> ] : u \in RandomSamples }

Next ==
  \/ \E data \in SessionLists : \E rnd \in RandomDraws(data) : LoadOk(data, rnd)
  \/ \E e \in Thrown : LoadFail(e)
  \/ \E i \in 1..Len(filtered) : onRowClick(filtered[i])
  \/ \E id \in BagToSet(inflight) : \E wx \in WeatherResponses : WeatherOk(id, wx)
  \/ \E id \in BagToSet(inflight) : \E e \in Thrown : WeatherFail(id, e)
  \/ \E v \in DateInputs : SetFromDate(v)
  \/ \E v \in DateInputs : SetToDate(v)
  \/ ClearRange
  \/ \E k \in ToggleKeys : toggleCol(k)
  \/ Unmount

Spec == Init /\ [][Next]_vars

\* ------------------------------------------ the filter engine on its own
\* Sessions starting at midnight or at 10:00 of a day, so that starts fall
\* on and between the instants the date inputs denote.
FilterSession(i, st) ==
  [ id          |-> SessionId(i),
    start_time  |-> st,
    end_time    |-> Iso(st.day, st.ms + HourMs),
    distance_km |-> <<10>>,
    spo2_pct    |-> <<96>> ]

FilterStarts == { Iso(d, ms) : d \in Days, ms \in {0, 10 * HourMs} }

FilterSessionLists ==
  UNION { { [ i \in 1..n |-> FilterSession(i, st[i]) ] : st \in [1..n -> FilterStarts] }
          : n \in 0..MaxFilterRows }

NoRandom(data) == [ i \in 1..Len(data) |-> << Frac(0, 1), Frac(0, 1) >> ]

\* the view after a successful load, nothing selected, range empty
InitLoaded(data) ==
  /\ mounted = TRUE
  /\ loadPc = "resolved"
  /\ rows = Enrich(data, NoRandom(data))
  /\ loading = FALSE
  /\ error = <<>>
  /\ selected = <<>>
  /\ weatherById = << >>
  /\ visibleCols = defaultVisible
  /\ fromDate = <<>>
  /\ toDate = <<>>
  /\ filtered = filterRows(rows, fromDate, toDate)
  /\ inflight = EmptyBag

InitFilter == \E data \in FilterSessionLists : InitLoaded(data)

NextFilter ==
  \/ \E v \in DateInputs : SetFromDate(v)
  \/ \E v \in DateInputs : SetToDate(v)
  \/ ClearRange

SpecFilter == InitFilter /\ [][NextFilter]_vars

\* ------------------------------------------------ pickClosest on its own
PickTimes == { Iso(0, h * HourMs) : h \in 0..MaxPickHour }

PickSession(st) ==
  [ id          |-> SessionId(1),
    start_time  |-> st,
    end_time    |-> Iso(st.day, st.ms + HourMs),
    distance_km |-> <<10>>,
    spo2_pct    |-> <<96>> ]

PickResponses ==
  UNION { [1..n -> [timestamp : PickTimes]] : n \in 0..MaxPickObs }

\* one session loaded; its weather series arrives after a click
InitPick == \E st \in PickTimes : InitLoaded(<< PickSession(st) >>)

NextPick ==
  \/ \E i \in 1..Len(filtered) : onRowClick(filtered[i])
  \/ \E id \in BagToSet(inflight) : \E wx \in PickResponses : WeatherOk(id, wx)

SpecPick == InitPick /\ [][NextPick]_vars

\* ------------------------------------------- column visibility on its own
\* every checkbox of the Columns grid can be operated, any number of times
NextCols == \E k \in ColumnKey : toggleCol(k)

SpecCols == Init /\ [][NextCols]_vars

\* ---------------------------------------------- the enrichment on its own
\* Session i of a long list is one of two kinds: an hour's run over 10 km
\* without spo2_pct, or a zero-length session with distance 0 and spo2_pct.
EnrichSession(i, kind) ==
  [ id          |-> SessionId(i),
    start_time  |-> Iso(0, 10 * HourMs),
    end_time    |-> IF kind = 1 THEN Iso(0, 11 * HourMs) ELSE Iso(0, 10 * HourMs),
    distance_km |-> IF kind = 1 THEN <<10>> ELSE <<0>>,
    spo2_pct    |-> IF kind = 1 THEN <<>> ELSE <<96>> ]

LongSessionLists ==
  UNION { { [ i \in 1..n |-> EnrichSession(i, kind[i]) ] : kind \in [1..n -> {1, 2}] }
          : n \in 0..MaxEnrichLen }

\* Single sessions starting at 10:00 whose end lies an hour before, at, or
\* 59.5 s, 90 s, 59 min 57 s or an hour after the start, with distance absent,
\* zero, negative or positive.
SpanMs == { 0 - HourMs, 0, 59500, 90000, 3597000, HourMs }

MetricSession(span, dist) ==
  [ id          |-> SessionId(1),
    start_time  |-> Iso(0, 10 * HourMs),
    end_time    |-> Iso(0, 10 * HourMs + span),
    distance_km |-> dist,
    spo2_pct    |-> <<96>> ]

MetricSessionLists ==
  { << MetricSession(span, dist) >> :
       span \in SpanMs, dist \in { <<>>, <<0>>, << 0 - 5 >>, <<1>>, <<10>> } }

EnrichSessionLists == LongSessionLists \cup MetricSessionLists

NextEnrich ==
  \E data \in EnrichSessionLists : \E rnd \in RandomDraws(data) : LoadOk(data, rnd)

SpecEnrich == Init /\ [][NextEnrich]_vars

\* ================================================================ claims
RowIds == { rows[i].id : i \in 1..Len(rows) }

\* C1: a row click on a session whose id already has a cache entry starts
\* no weather fetch and leaves the cache as it is, in every reachable state.
C1_CachedSelectStartsNoFetch ==
  [][ \A i \in 1..Len(filtered) :
        (onRowClick(filtered[i]) /\ filtered[i].id \in DOMAIN weatherById)
          => (inflight' = inflight /\ weatherById' = weatherById) ]_vars

\* a displayed row is selected, its id is cached (here with an empty series),
\* nothing is in flight for it and a further click on it is possible
C1_Witness ==
  /\ mounted
  /\ selected # <<>>
  /\ selected[1].id \in DOMAIN weatherById
  /\ weatherById[selected[1].id] = <<>>
  /\ ~BagIn(selected[1].id, inflight)
  /\ \E i \in 1..Len(filtered) : filtered[i] = selected[1]

\* C2: a step that changes the cache is the resolution of a fetch that was in
\* flight for some id, and it creates or changes the slot of that id only;
\* a fetch enters flight only for the id of the row just selected.
C2_WriteBackKeyedByRequestedId ==
  [][ /\ (weatherById' # weatherById) =>
           \E id \in BagToSet(inflight) :
             /\ inflight' = inflight (-) SetToBag({id})
             /\ DOMAIN weatherById' = DOMAIN weatherById \cup {id}
             /\ \A j \in DOMAIN weatherById \ {id} : weatherById'[j] = weatherById[j]
      /\ \A id \in RowIds :
           (CopiesIn(id, inflight') > CopiesIn(id, inflight)) =>
              (selected' # <<>> /\ selected'[1].id = id)
    ]_vars

\* two sessions were selected one after the other; the fetch for one has
\* been stored while the other is still in flight and has no slot
C2_Witness ==
  \E a \in DOMAIN weatherById : \E b \in BagToSet(inflight) :
     /\ a # b
     /\ b \notin DOMAIN weatherById
     /\ selected # <<>> /\ selected[1].id = b

\* C3: the cache is insert-only; an id that has an entry keeps one in every
\* later state.
C3_CacheInsertOnly ==
  [][ DOMAIN weatherById \subseteq DOMAIN weatherById' ]_vars

\* a second id was stored after a first one and both entries are present
C3_Witness == Cardinality(DOMAIN weatherById) >= 2

\* C4: a failed weather fetch leaves the cache, the error message and the
\* selection as they were.
C4_WeatherFailureInvisible ==
  [][ \A id \in BagToSet(inflight) : \A e \in Thrown :
        WeatherFail(id, e) => UNCHANGED << weatherById, error, selected >> ]_vars

\* the fetch started by the current selection has failed: the view is
\* mounted, the selected id is neither cached nor in flight, no error shown
C4_Witness ==
  /\ mounted
  /\ selected # <<>>
  /\ selected[1].id \notin DOMAIN weatherById
  /\ ~BagIn(selected[1].id, inflight)
  /\ error = <<>>

\* C5: after the session-list fetch was rejected (view mounted) an error
\* message is stored, loading is cleared and rows is empty; whenever an
\* error is stored, rows and the displayed rows are empty.
C5_LoadFailure ==
  /\ (mounted /\ loadPc = "rejected") =>
        (error # <<>> /\ loading = FALSE /\ rows = <<>>)
  /\ (error # <<>>) => (rows = <<>> /\ filtered = <<>>)

C5_Witness == mounted /\ loadPc = "rejected" /\ error = << "Failed to fetch" >>

C8_DisplayedInStep == filtered = filterRows(rows, fromDate, toDate)

\* a range is set that hides some, but not all, of the loaded rows
C8_Witness ==
  /\ fromDate # <<>> /\ toDate # <<>>
  /\ filtered # <<>>
  /\ Len(filtered) < Len(rows)

\* C9: while loading is true rows is empty and nothing is displayed, and
\* range changes and column toggles are possible.
C9_LoadingMeansNoRows ==
  loading =>
    /\ rows = <<>>
    /\ filtered = <<>>
    /\ mounted => /\ ENABLED (\E k \in ToggleKeys : toggleCol(k))
                  /\ ENABLED (\E v \in DateInputs : SetFromDate(v))
                  /\ ENABLED (\E v \in DateInputs : SetToDate(v))
                  /\ ENABLED ClearRange

\* a range and a column were changed while still loading
C9_Witness ==
  /\ loading /\ mounted
  /\ fromDate # <<>>
  /\ visibleCols # defaultVisible

\* C7: the filter result is the order-preserving subsequence of the rows
\* whose start instant t has lower <= t <= upper, both ends inclusive, an
\* empty bound being unbounded; all rows when both are empty; the empty
\* list when lower > upper.
InRange(r, from, to) ==
  /\ (from = <<>> \/ ParseDate(from[1]) <= ParseISO(r.start_time))
  /\ (to = <<>> \/ ParseISO(r.start_time) <= ParseDate(to[1]))

C7_FilterInclusiveSubsequence ==
  LET res  == filterRows(rows, fromDate, toDate)
      keep == { i \in 1..Len(rows) : InRange(rows[i], fromDate, toDate) }
  IN  /\ Len(res) = Cardinality(keep)
      /\ \E f \in [1..Len(res) -> keep] :
            /\ \A i, j \in 1..Len(res) : i < j => f[i] < f[j]
            /\ \A i \in 1..Len(res) : res[i] = rows[f[i]]
      /\ (fromDate = <<>> /\ toDate = <<>>) => res = rows
      /\ (fromDate # <<>> /\ toDate # <<>> /\ fromDate[1] > toDate[1]) => res = <<>>

\* both bounds set, a row starting exactly at the upper bound is kept and an
\* earlier-listed row is dropped
C7_Witness ==
  /\ fromDate # <<>> /\ toDate # <<>>
  /\ \E i, j \in 1..Len(rows) :
       /\ i < j
       /\ ~InRange(rows[i], fromDate, toDate)
       /\ ParseISO(rows[j].start_time) = ParseDate(toDate[1])
       /\ \E k \in 1..Len(filtered) : filtered[k] = rows[j]

\* C10: for a non-empty series pickClosest returns the observation of
\* smallest index among those of minimal absolute time difference to the
\* target; for an empty or missing series it returns undefined.
SeriesOf(id) == IF id \in DOMAIN weatherById THEN << weatherById[id] >> ELSE <<>>

TimeDiff(o, isoTime) == Abs(ParseISO(o.timestamp) - ParseISO(isoTime))

C10_PickClosestMinimalEarliest ==
  \A i \in 1..Len(rows) :
    LET obs == SeriesOf(rows[i].id)
        t   == rows[i].start_time
        idx == pickClosestIdx(obs, t)
        res == pickClosest(obs, t)
    IN  IF obs = <<>> \/ obs[1] = <<>>
        THEN res = <<>>
        ELSE /\ idx \in 1..Len(obs[1])
             /\ res = << obs[1][idx] >>
             /\ \A j \in 1..Len(obs[1]) : TimeDiff(obs[1][idx], t) <= TimeDiff(obs[1][j], t)
             /\ \A j \in 1..(idx - 1) : TimeDiff(obs[1][j], t) > TimeDiff(obs[1][idx], t)

\* a cached series whose first observation is not nearest and whose nearest
\* difference is shared by two observations on either side of the target
C10_Witness ==
  \E i \in 1..Len(rows) :
    LET obs == SeriesOf(rows[i].id)
        t   == rows[i].start_time
    IN  /\ obs # <<>> /\ Len(obs[1]) = 3
        /\ pickClosestIdx(obs, t) = 2
        /\ TimeDiff(obs[1][3], t) = TimeDiff(obs[1][2], t)
        /\ obs[1][3] # obs[1][2]

\* C11: toggleCol(k) inverts the boolean at k and leaves every other key as
\* it was; toggling k twice gives the original set back, and toggles of two
\* different keys commute.
C11_ToggleInvertsOneKey ==
  /\ [][ \A k \in ColumnKey :
           toggleCol(k) =>
             /\ visibleCols'[k] = ~visibleCols[k]
             /\ \A j \in ColumnKey \ {k} : visibleCols'[j] = visibleCols[j] ]_vars
  /\ [](\A k \in ColumnKey :
          /\ ToggleValue(ToggleValue(visibleCols, k), k) = visibleCols
          /\ \A j \in ColumnKey \ {k} :
               ToggleValue(ToggleValue(visibleCols, k), j)
                 = ToggleValue(ToggleValue(visibleCols, j), k))

\* two different keys have been toggled, one of them from on to off
C11_Witness ==
  /\ Cardinality({ k \in ColumnKey : visibleCols[k] # defaultVisible[k] }) = 2
  /\ ~visibleCols["id"]
  /\ visibleCols["pace"]

\* C12: the visibility set starts as the literal default and its key set is
\* the fixed 15 column keys, each mapped to a boolean, in every state.
LiteralDefault ==
  [ id |-> TRUE, start |-> TRUE, end |-> FALSE, duration |-> TRUE,
    pace |-> FALSE, sport |-> TRUE, distance |-> TRUE, calories |-> FALSE,
    avg_hr |-> FALSE, steps |-> FALSE, spo2 |-> TRUE, vo2max |-> FALSE,
    coach |-> FALSE, training |-> FALSE, weather |-> TRUE ]

C12_VisibilityKeysFixed ==
  /\ visibleCols = LiteralDefault
  /\ [](/\ DOMAIN visibleCols = DOMAIN LiteralDefault
        /\ Cardinality(DOMAIN visibleCols) = 15
        /\ \A k \in DOMAIN visibleCols : visibleCols[k] \in BOOLEAN)

\* every column has been switched away from its default
C12_Witness ==
  /\ DOMAIN visibleCols = DOMAIN LiteralDefault
  /\ \A k \in DOMAIN LiteralDefault : visibleCols[k] = ~LiteralDefault[k]

\* C13: after a successful load rows has the length and order of the fetched
\* list, row i carries the id and fields of session i, and its coach and
\* training type are coaches[i mod 3] and trainings[i mod 6] (i from 0).
C13_EnrichmentOneToOneCyclic ==
  [][ \A data \in EnrichSessionLists : \A rnd \in RandomDraws(data) :
        LoadOk(data, rnd) =>
          /\ Len(rows') = Len(data)
          /\ \A i \in 1..Len(data) :
               /\ rows'[i].id = data[i].id
               /\ rows'[i].start_time = data[i].start_time
               /\ rows'[i].end_time = data[i].end_time
               /\ rows'[i].distance_km = data[i].distance_km
               /\ data[i].spo2_pct # <<>> => rows'[i].spo2_pct = data[i].spo2_pct[1]
               /\ rows'[i].coach = coaches[((i - 1) % 3) + 1]
               /\ rows'[i].training_type = trainings[((i - 1) % 6) + 1] ]_vars

\* seven sessions loaded: the fifth has the second coach, the seventh is
\* back at the first coach and the first training type
C13_Witness ==
  /\ Len(rows) = 7
  /\ rows[5].coach = "John Mitchell"
  /\ rows[7].coach = "Sarah Eastern"
  /\ rows[7].training_type = "Strength"
  /\ rows[6].training_type = "Intervals"

\* C14: duration_minutes is max(0, end - start) in minutes, and
\* pace_min_per_km is defined exactly when distance > 0 and duration > 0,
\* and then equals duration / distance.
C14_DurationAndPace ==
  \A i \in 1..Len(rows) :
    LET r    == rows[i]
        span == ParseISO(r.end_time) - ParseISO(r.start_time)
        dur  == r.duration_minutes
        pace == r.pace_min_per_km
    IN  /\ dur.d > 0
        /\ dur.n * 60000 = dur.d * (IF span > 0 THEN span ELSE 0)
        /\ (pace # <<>>) <=> (r.distance_km # <<>> /\ r.distance_km[1] > 0 /\ dur.n > 0)
        /\ pace # <<>> =>
             /\ pace[1].d > 0
             /\ pace[1].n * dur.d * r.distance_km[1] = pace[1].d * dur.n

\* a session that ends an hour before it starts, over 10 km: duration 0 and
\* no pace
C14_Witness ==
  /\ Len(rows) = 1
  /\ ParseISO(rows[1].end_time) < ParseISO(rows[1].start_time)
  /\ rows[1].distance_km = <<10>>
  /\ rows[1].duration_minutes = Frac(0, 1)
  /\ rows[1].pace_min_per_km = <<>>

\* C19: for a defined positive pace fmtPace renders M = floor(pace), a colon
\* and a two-digit seconds field SS = round(fractional minute * 60) with SS
\* in 00..59, followed by "/km"; an undefined or zero pace renders as the
\* placeholder.
TwoDigits(ss) == << DigitChar(ss \div 10), DigitChar(ss % 10) >>

RendersAsMinutesSeconds(pace) ==
  LET M  == pace.n \div pace.d
      SS == (2 * 60 * (pace.n - M * pace.d) + pace.d) \div (2 * pace.d)
  IN  /\ SS \in 0..59
      /\ fmtPace(<< pace >>) = NumToString(M) \o << ":" >> \o TwoDigits(SS) \o << "/", "k", "m" >>

C19_PaceSecondsBelowSixty ==
  \A i \in 1..Len(rows) :
    LET p == rows[i].pace_min_per_km
    IN  IF p = <<>> \/ p[1].n = 0
        THEN fmtPace(p) = Dash
        ELSE RendersAsMinutesSeconds(p[1])

\* C15: once the cache holds a series for an id, that stored value is never
\* replaced, also when two selects of the id were issued before the first
\* fetch resolved and the fetches return different series.
C15_CachedValueNeverReplaced ==
  [][ \A id \in DOMAIN weatherById :
        id \in DOMAIN weatherById' /\ weatherById'[id] = weatherById[id] ]_vars

\* C16: every select of a session whose id has no cache entry starts a new
\* weather fetch for that id (so a select after failed fetches retries), and
\* a fetch that succeeds while the view is mounted makes the entry present,
\* after which it stays present.
C16_UncachedSelectFetches ==
  [][ /\ \A i \in 1..Len(filtered) :
           (onRowClick(filtered[i]) /\ filtered[i].id \notin DOMAIN weatherById)
             => CopiesIn(filtered[i].id, inflight')
                  = CopiesIn(filtered[i].id, inflight) + 1
      /\ \A id \in BagToSet(inflight) : \A wx \in WeatherResponses :
           (WeatherOk(id, wx) /\ mounted) => id \in DOMAIN weatherById'
      /\ DOMAIN weatherById \subseteq DOMAIN weatherById'
    ]_vars

\* the selected session has no entry and two fetches for it are in flight:
\* the second select did not wait for the first fetch
C16_Witness ==
  /\ mounted
  /\ selected # <<>>
  /\ selected[1].id \notin DOMAIN weatherById
  /\ CopiesIn(selected[1].id, inflight) = 2

\* C17: the load runs once; when the fetch has resolved or been rejected
\* (view mounted) loading is false, loading never becomes true again, and
\* one outcome is recorded: rows with no error, or an error with no rows.
C17_LoadOnceOneOutcome ==
  /\ [][ /\ loadPc # "awaiting" => loadPc' = loadPc
         /\ ~loading => ~loading'
         /\ loadPc # "awaiting" => (rows' = rows /\ error' = error) ]_vars
  /\ []( /\ (mounted /\ loadPc # "awaiting") => ~loading
         /\ (mounted /\ loadPc = "resolved") => error = <<>>
         /\ (mounted /\ loadPc = "rejected") => (error # <<>> /\ rows = <<>>)
         /\ loadPc = "awaiting" => (rows = <<>> /\ error = <<>>) )

\* the load succeeded with rows and later user actions left that outcome
C17_Witness ==
  /\ mounted
  /\ loadPc = "resolved"
  /\ rows # <<>> /\ error = <<>> /\ ~loading
  /\ toDate # <<>>
  /\ inflight # EmptyBag

\* C18: the state components change independently: a step that changes the
\* range changes nothing else, a step that changes the visibility set
\* changes nothing else, a step that changes the selection changes nothing
\* else, a step that changes the cache changes nothing else; rows is never
\* changed after the load.
C18_IndependentComponents ==
  [][ /\ (fromDate' # fromDate \/ toDate' # toDate) =>
           UNCHANGED << rows, loading, error, selected, weatherById, visibleCols >>
      /\ (visibleCols' # visibleCols) =>
           UNCHANGED << rows, loading, error, selected, weatherById, fromDate, toDate >>
      /\ (selected' # selected) =>
           UNCHANGED << rows, loading, error, weatherById, visibleCols, fromDate, toDate >>
      /\ (weatherById' # weatherById) =>
           UNCHANGED << rows, loading, error, selected, visibleCols, fromDate, toDate >>
      /\ (loadPc # "awaiting") => rows' = rows
    ]_vars

\* the selected session is hidden by the current range and is still selected
C18_Witness ==
  /\ mounted
  /\ selected # <<>>
  /\ fromDate # <<>>
  /\ \A i \in 1..Len(filtered) : filtered[i] # selected[1]
  /\ \E i \in 1..Len(rows) : rows[i] = selected[1]

====
